---- MODULE Spec2Model ----
(***************************************************************************)
(* fidlgen-rs: src/main.rs.  main() hands every command-line argument to   *)
(* ir::read_ir, which opens the file and lets serde_json decode it into    *)
(* the derive(Deserialize) data model of module ir, and prints the result. *)
(*                                                                         *)
(* A file's content is a JSON value (or bytes that are no JSON); the       *)
(* derived Deserialize impls are the operators de_*, written field by      *)
(* field from the struct and enum definitions.                             *)
(***************************************************************************)
EXTENDS Integers, Sequences, FiniteSets, TLC

VARIABLES args, i, pc, lib, stdout, panic

vars == <<args, i, pc, lib, stdout, panic>>

(***************************************************************************)
(* JSON values, as serde_json reads them.                                  *)
(***************************************************************************)
Null == [t |-> "null"]
Bool(b) == [t |-> "bool", b |-> b]
Num(n) == [t |-> "num", n |-> n]
Str(s) == [t |-> "str", s |-> s]
Arr(a) == [t |-> "arr", a |-> a]
Obj(f) == [t |-> "obj", f |-> f]

\* An object with field k set to v, and with field k removed.
Put(o, k, v) == Obj([x \in DOMAIN o.f \cup {k} |-> IF x = k THEN v ELSE o.f[x]])
Without(o, k) == Obj([x \in DOMAIN o.f \ {k} |-> o.f[x]])

(***************************************************************************)
(* Result<T, serde_json::Error> and Option<T>.                             *)
(***************************************************************************)
Ok(v) == [ok |-> TRUE, v |-> v]
Err == [ok |-> FALSE]
None == [some |-> FALSE]
Some(v) == [some |-> TRUE, v |-> v]

(***************************************************************************)
(* Deserialize for the primitive field types.                              *)
(***************************************************************************)
de_String(j) == IF j.t = "str" THEN Ok(j.s) ELSE Err
de_bool(j) == IF j.t = "bool" THEN Ok(j.b) ELSE Err
\* u32 and Ordinal = u64: a JSON number that is a non-negative integer (the
\* numbers of the documents here are all below 2^31, so none is too large).
de_u32(j) == IF j.t = "num" /\ j.n >= 0 THEN Ok(j.n) ELSE Err
de_Ordinal(j) == IF j.t = "num" /\ j.n >= 0 THEN Ok(j.n) ELSE Err

\* T::deserialize for the declared type T of a field (defined last).
RECURSIVE de(_, _)

\* A field of type T of a derived struct: absent is the error "missing field".
req(o, k, T) == IF k \in DOMAIN o.f THEN de(T, o.f[k]) ELSE Err

\* optf with the field declared T instead of Option<T>: absent is an error.
optf_declared_required(o, k, T) ==
    IF k \notin DOMAIN o.f THEN Err
    ELSE IF o.f[k].t = "null" THEN Ok(None)
    ELSE LET r == de(T, o.f[k]) IN IF r.ok THEN Ok(Some(r.v)) ELSE Err

\* A field of type Option<T>: absent or null is None, anything else must be a T.
optf(o, k, T) ==
    IF k \notin DOMAIN o.f THEN Ok(None)
    ELSE IF o.f[k].t = "null" THEN Ok(None)
    ELSE LET r == de(T, o.f[k]) IN IF r.ok THEN Ok(Some(r.v)) ELSE Err

\* Vec<T>: a JSON array, every element a T, kept in the document's order.
de_Vec(T, j) ==
    IF j.t # "arr" THEN Err
    ELSE LET rs == [n \in 1..Len(j.a) |-> de(T, j.a[n])]
         IN IF \A n \in 1..Len(j.a) : rs[n].ok
            THEN Ok([n \in 1..Len(j.a) |-> rs[n].v])
            ELSE Err

\* HashMap<String, T>: a JSON object, every value a T.
de_HashMap(T, j) ==
    IF j.t # "obj" THEN Err
    ELSE LET rs == [k \in DOMAIN j.f |-> de(T, j.f[k])]
         IN IF \A k \in DOMAIN j.f : rs[k].ok
            THEN Ok([k \in DOMAIN j.f |-> rs[k].v])
            ELSE Err

(***************************************************************************)
(* rename_all = "lowercase" on the variant names of the enums.             *)
(***************************************************************************)
lowercase ==
    [Handle |-> "handle", Process |-> "process", Thread |-> "thread",
     VMO |-> "vmo", Channel |-> "channel", Event |-> "event", Port |-> "port",
     Interrupt |-> "interrupt", DebugLog |-> "debuglog", Socket |-> "socket",
     Resource |-> "resource", EventPair |-> "eventpair", Job |-> "job",
     VMAR |-> "vmar", FIFO |-> "fifo", Guest |-> "guest", Timer |-> "timer",
     BTI |-> "bti", Profile |-> "profile",
     Const |-> "const", Bits |-> "bits", Enum |-> "enum",
     Interface |-> "interface", Struct |-> "struct", Table |-> "table",
     Union |-> "union", XUnion |-> "xunion",
     Array |-> "array", Vector |-> "vector", String |-> "string",
     Request |-> "request", Primitive |-> "primitive",
     Identifier |-> "identifier",
     Numeric |-> "numeric", True |-> "true", False |-> "false",
     Default |-> "default", Literal |-> "literal"]

HandleSubtype ==
    {"Handle", "Process", "Thread", "VMO", "Channel", "Event", "Port",
     "Interrupt", "DebugLog", "Socket", "Resource", "EventPair", "Job",
     "VMAR", "FIFO", "Guest", "Timer", "BTI", "Profile"}

DeclarationType ==
    {"Const", "Bits", "Enum", "Interface", "Struct", "Table", "Union", "XUnion"}

TypeVariants ==
    {"Array", "Vector", "String", "Handle", "Request", "Primitive", "Identifier"}

LiteralVariants == {"String", "Numeric", "True", "False", "Default"}

ConstantVariants == {"Identifier", "Literal"}

\* variant with a catch-all: a string naming no variant selects one anyway.
variant_with_fallback(variants, s) ==
    IF \E v \in variants : lowercase[v] = s
    THEN Ok(CHOOSE v \in variants : lowercase[v] = s)
    ELSE Ok(CHOOSE v \in variants : TRUE)

\* The variant of the set whose lower-cased name is the string s, if any.
variant(variants, s) ==
    IF \E v \in variants : lowercase[v] = s
    THEN Ok(CHOOSE v \in variants : lowercase[v] = s)
    ELSE Err

\* An enum of unit variants, given as a JSON string.
de_unit_enum(variants, j) == IF j.t = "str" THEN variant(variants, j.s) ELSE Err

de_HandleSubtype(j) == de_unit_enum(HandleSubtype, j)
de_DeclarationType(j) == de_unit_enum(DeclarationType, j)

\* serde(tag = "kind"): the variant an object's "kind" field selects.  The
\* kinds of the documents here are strings, booleans or null.
tag(variants, j) ==
    IF j.t # "obj" THEN Err
    ELSE IF "kind" \notin DOMAIN j.f THEN Err
    ELSE IF j.f["kind"].t # "str" THEN Err
    ELSE variant(variants, j.f["kind"].s)

(***************************************************************************)
(* enum Type, enum Literal, enum Constant: internally tagged by "kind".    *)
(* Fields of the object that the selected variant does not declare are     *)
(* skipped.                                                                *)
(***************************************************************************)
de_Type(j) ==
    LET k == tag(TypeVariants, j) IN
    IF ~k.ok THEN Err
    ELSE CASE k.v = "Array" ->
              LET et == req(j, "element_type", "Type")
                  ec == req(j, "element_count", "u32")
              IN IF et.ok /\ ec.ok
                 THEN Ok([kind |-> "Array", element_type |-> et.v,
                          element_count |-> ec.v])
                 ELSE Err
           [] k.v = "Vector" ->
              LET et == req(j, "element_type", "Type")
                  nu == req(j, "nullable", "bool")
                  mc == optf(j, "maybe_element_count", "u32")
              IN IF et.ok /\ nu.ok /\ mc.ok
                 THEN Ok([kind |-> "Vector", element_type |-> et.v,
                          nullable |-> nu.v, maybe_element_count |-> mc.v])
                 ELSE Err
           [] k.v = "String" ->
              LET nu == req(j, "nullable", "bool")
                  mc == optf(j, "maybe_element_count", "u32")
              IN IF nu.ok /\ mc.ok
                 THEN Ok([kind |-> "String", nullable |-> nu.v,
                          maybe_element_count |-> mc.v])
                 ELSE Err
           [] k.v = "Handle" ->
              LET st == req(j, "subtype", "HandleSubtype")
                  nu == req(j, "nullable", "bool")
              IN IF st.ok /\ nu.ok
                 THEN Ok([kind |-> "Handle", subtype |-> st.v, nullable |-> nu.v])
                 ELSE Err
           [] k.v = "Request" ->
              LET st == req(j, "subtype", "String")
                  nu == req(j, "nullable", "bool")
              IN IF st.ok /\ nu.ok
                 THEN Ok([kind |-> "Request", subtype |-> st.v, nullable |-> nu.v])
                 ELSE Err
           [] k.v = "Primitive" ->
              LET st == req(j, "subtype", "String")
              IN IF st.ok THEN Ok([kind |-> "Primitive", subtype |-> st.v]) ELSE Err
           [] k.v = "Identifier" ->
              LET id == req(j, "identifier", "String")
                  nu == req(j, "nullable", "bool")
              IN IF id.ok /\ nu.ok
                 THEN Ok([kind |-> "Identifier", identifier |-> id.v,
                          nullable |-> nu.v])
                 ELSE Err

de_Literal(j) ==
    LET k == tag(LiteralVariants, j) IN
    IF ~k.ok THEN Err
    ELSE IF k.v \in {"String", "Numeric"}
         THEN LET va == req(j, "value", "String")
              IN IF va.ok THEN Ok([kind |-> k.v, value |-> va.v]) ELSE Err
         ELSE Ok([kind |-> k.v])

de_Constant(j) ==
    LET k == tag(ConstantVariants, j) IN
    IF ~k.ok THEN Err
    ELSE IF k.v = "Identifier"
         THEN LET id == req(j, "identifier", "String")
              IN IF id.ok THEN Ok([kind |-> "Identifier", identifier |-> id.v])
                 ELSE Err
         ELSE LET li == req(j, "literal", "Literal")
              IN IF li.ok THEN Ok([kind |-> "Literal", literal |-> li.v]) ELSE Err

(***************************************************************************)
(* The derived structs.  A struct is read from a JSON object; its fields   *)
(* are looked up by name and fields it does not declare are skipped.  (A   *)
(* struct is also read from a JSON array of all its fields in order; the   *)
(* only arrays the documents here hold in place of a struct are empty, and *)
(* an empty array lacks the first field.  An object cannot hold a key      *)
(* twice here.)                                                            *)
(***************************************************************************)
de_Attribute(j) ==
    IF j.t # "obj" THEN Err
    ELSE LET na == req(j, "name", "String")
             va == req(j, "value", "String")
         IN IF na.ok /\ va.ok THEN Ok([name |-> na.v, value |-> va.v]) ELSE Err

de_Const(j) ==
    IF j.t # "obj" THEN Err
    ELSE LET na == req(j, "name", "String")
             ty == req(j, "type", "Type")
             va == req(j, "value", "Constant")
             at == optf(j, "maybe_attributes", "Vec<Attribute>")
         IN IF na.ok /\ ty.ok /\ va.ok /\ at.ok
            THEN Ok([name |-> na.v, type |-> ty.v, value |-> va.v,
                     maybe_attributes |-> at.v])
            ELSE Err

de_EnumMember(j) ==
    IF j.t # "obj" THEN Err
    ELSE LET na == req(j, "name", "String")
             va == req(j, "value", "Constant")
             at == optf(j, "maybe_attributes", "Vec<Attribute>")
         IN IF na.ok /\ va.ok /\ at.ok
            THEN Ok([name |-> na.v, value |-> va.v, maybe_attributes |-> at.v])
            ELSE Err

de_Enum(j) ==
    IF j.t # "obj" THEN Err
    ELSE LET na == req(j, "name", "String")
             ty == req(j, "type", "String")
             me == req(j, "members", "Vec<EnumMember>")
             at == optf(j, "maybe_attributes", "Vec<Attribute>")
         IN IF na.ok /\ ty.ok /\ me.ok /\ at.ok
            THEN Ok([name |-> na.v, type |-> ty.v, members |-> me.v,
                     maybe_attributes |-> at.v])
            ELSE Err

de_StructMember(j) ==
    IF j.t # "obj" THEN Err
    ELSE LET na == req(j, "name", "String")
             at == optf(j, "maybe_attributes", "Vec<Attribute>")
             ty == req(j, "type", "Type")
             si == req(j, "size", "u32")
             mo == req(j, "max_out_of_line", "u32")
             al == req(j, "alignment", "u32")
             of == req(j, "offset", "u32")
             dv == optf(j, "maybe_default_value", "Constant")
         IN IF na.ok /\ at.ok /\ ty.ok /\ si.ok /\ mo.ok /\ al.ok /\ of.ok /\ dv.ok
            THEN Ok([name |-> na.v, maybe_attributes |-> at.v, type |-> ty.v,
                     size |-> si.v, max_out_of_line |-> mo.v,
                     alignment |-> al.v, offset |-> of.v,
                     maybe_default_value |-> dv.v])
            ELSE Err

de_ProtocolMethod(j) ==
    IF j.t # "obj" THEN Err
    ELSE LET na == req(j, "name", "String")
             at == optf(j, "maybe_attributes", "Vec<Attribute>")
             od == req(j, "ordinal", "Ordinal")
             go == req(j, "generated_ordinal", "Ordinal")
             hq == req(j, "has_request", "bool")
             mq == optf(j, "maybe_request", "Vec<StructMember>")
             qs == optf(j, "maybe_request_size", "u32")
             qa == optf(j, "maybe_request_alignment", "u32")
             hp == req(j, "has_response", "bool")
             mp == optf(j, "maybe_response", "Vec<StructMember>")
             ps == optf(j, "maybe_response_size", "u32")
             pa == optf(j, "maybe_response_alignment", "u32")
         IN IF /\ na.ok /\ at.ok /\ od.ok /\ go.ok
               /\ hq.ok /\ mq.ok /\ qs.ok /\ qa.ok
               /\ hp.ok /\ mp.ok /\ ps.ok /\ pa.ok
            THEN Ok([name |-> na.v, maybe_attributes |-> at.v,
                     ordinal |-> od.v, generated_ordinal |-> go.v,
                     has_request |-> hq.v, maybe_request |-> mq.v,
                     maybe_request_size |-> qs.v,
                     maybe_request_alignment |-> qa.v,
                     has_response |-> hp.v, maybe_response |-> mp.v,
                     maybe_response_size |-> ps.v,
                     maybe_response_alignment |-> pa.v])
            ELSE Err

de_Protocol(j) ==
    IF j.t # "obj" THEN Err
    ELSE LET na == req(j, "name", "String")
             at == optf(j, "maybe_attributes", "Vec<Attribute>")
             me == req(j, "methods", "Vec<ProtocolMethod>")
         IN IF na.ok /\ at.ok /\ me.ok
            THEN Ok([name |-> na.v, maybe_attributes |-> at.v, methods |-> me.v])
            ELSE Err

de_Struct(j) ==
    IF j.t # "obj" THEN Err
    ELSE LET na == req(j, "name", "String")
             at == optf(j, "maybe_attributes", "Vec<Attribute>")
             me == req(j, "members", "Vec<StructMember>")
             si == req(j, "size", "u32")
             mo == req(j, "max_out_of_line", "u32")
             mh == optf(j, "max_handles", "u32")
             an == optf(j, "anonymous", "bool")
         IN IF na.ok /\ at.ok /\ me.ok /\ si.ok /\ mo.ok /\ mh.ok /\ an.ok
            THEN Ok([name |-> na.v, maybe_attributes |-> at.v, members |-> me.v,
                     size |-> si.v, max_out_of_line |-> mo.v,
                     max_handles |-> mh.v, anonymous |-> an.v])
            ELSE Err

\* de_TableMember with name and type declared like a struct member's.
de_TableMember_named(j) ==
    IF j.t # "obj" THEN Err
    ELSE LET re == req(j, "reserved", "bool")
             od == req(j, "ordinal", "Ordinal")
             na == req(j, "name", "String")
             ty == req(j, "type", "Type")
             si == optf(j, "size", "u32")
             mo == optf(j, "max_out_of_line", "u32")
             al == optf(j, "alignment", "u32")
             of == optf(j, "offset", "u32")
             dv == optf(j, "maybe_default_value", "Constant")
         IN IF /\ re.ok /\ od.ok /\ na.ok /\ ty.ok /\ si.ok
               /\ mo.ok /\ al.ok /\ of.ok /\ dv.ok
            THEN Ok([reserved |-> re.v, ordinal |-> od.v, name |-> Some(na.v),
                     type |-> Some(ty.v), size |-> si.v, max_out_of_line |-> mo.v,
                     alignment |-> al.v, offset |-> of.v,
                     maybe_default_value |-> dv.v])
            ELSE Err

de_TableMember(j) ==
    IF j.t # "obj" THEN Err
    ELSE LET re == req(j, "reserved", "bool")
             od == req(j, "ordinal", "Ordinal")
             na == optf(j, "name", "String")
             ty == optf(j, "type", "Type")
             si == optf(j, "size", "u32")
             mo == optf(j, "max_out_of_line", "u32")
             al == optf(j, "alignment", "u32")
             of == optf(j, "offset", "u32")
             dv == optf(j, "maybe_default_value", "Constant")
         IN IF /\ re.ok /\ od.ok /\ na.ok /\ ty.ok /\ si.ok
               /\ mo.ok /\ al.ok /\ of.ok /\ dv.ok
            THEN Ok([reserved |-> re.v, ordinal |-> od.v, name |-> na.v,
                     type |-> ty.v, size |-> si.v, max_out_of_line |-> mo.v,
                     alignment |-> al.v, offset |-> of.v,
                     maybe_default_value |-> dv.v])
            ELSE Err

de_Table(j) ==
    IF j.t # "obj" THEN Err
    ELSE LET na == req(j, "name", "String")
             at == optf(j, "maybe_attributes", "Vec<Attribute>")
             me == req(j, "members", "Vec<TableMember>")
             si == req(j, "size", "u32")
             mo == req(j, "max_out_of_line", "u32")
         IN IF na.ok /\ at.ok /\ me.ok /\ si.ok /\ mo.ok
            THEN Ok([name |-> na.v, maybe_attributes |-> at.v, members |-> me.v,
                     size |-> si.v, max_out_of_line |-> mo.v])
            ELSE Err

de_UnionMember(j) ==
    IF j.t # "obj" THEN Err
    ELSE LET na == req(j, "name", "String")
             at == optf(j, "maybe_attributes", "Vec<Attribute>")
             ty == req(j, "type", "Type")
             si == req(j, "size", "u32")
             mo == req(j, "max_out_of_line", "u32")
             al == req(j, "alignment", "u32")
             of == req(j, "offset", "u32")
         IN IF na.ok /\ at.ok /\ ty.ok /\ si.ok /\ mo.ok /\ al.ok /\ of.ok
            THEN Ok([name |-> na.v, maybe_attributes |-> at.v, type |-> ty.v,
                     size |-> si.v, max_out_of_line |-> mo.v,
                     alignment |-> al.v, offset |-> of.v])
            ELSE Err

de_Union(j) ==
    IF j.t # "obj" THEN Err
    ELSE LET na == req(j, "name", "String")
             at == optf(j, "maybe_attributes", "Vec<Attribute>")
             me == req(j, "members", "Vec<UnionMember>")
             si == req(j, "size", "u32")
             al == req(j, "alignment", "u32")
             mo == req(j, "max_out_of_line", "u32")
             mh == optf(j, "max_handles", "u32")
         IN IF na.ok /\ at.ok /\ me.ok /\ si.ok /\ al.ok /\ mo.ok /\ mh.ok
            THEN Ok([name |-> na.v, maybe_attributes |-> at.v, members |-> me.v,
                     size |-> si.v, alignment |-> al.v,
                     max_out_of_line |-> mo.v, max_handles |-> mh.v])
            ELSE Err

\* The stand-in for an xunion declaration: its name and attributes only.
de_Declaration(j) ==
    IF j.t # "obj" THEN Err
    ELSE LET na == req(j, "name", "String")
             at == optf(j, "maybe_attributes", "Vec<Attribute>")
         IN IF na.ok /\ at.ok
            THEN Ok([name |-> na.v, maybe_attributes |-> at.v])
            ELSE Err

de_LibraryDependency(j) ==
    IF j.t # "obj" THEN Err
    ELSE LET na == req(j, "name", "String")
             dm == req(j, "declarations", "HashMap<String, DeclarationType>")
         IN IF na.ok /\ dm.ok
            THEN Ok([name |-> na.v, declarations |-> dm.v])
            ELSE Err

\* pub struct Library: all twelve fields are required; nothing relates them.
de_Library(j) ==
    IF j.t # "obj" THEN Err
    ELSE LET ve == req(j, "version", "String")
             na == req(j, "name", "String")
             co == req(j, "const_declarations", "Vec<Const>")
             en == req(j, "enum_declarations", "Vec<Enum>")
             it == req(j, "interface_declarations", "Vec<Protocol>")
             st == req(j, "struct_declarations", "Vec<Struct>")
             ta == req(j, "table_declarations", "Vec<Table>")
             un == req(j, "union_declarations", "Vec<Union>")
             xu == req(j, "xunion_declarations", "Vec<Declaration>")
             od == req(j, "declaration_order", "Vec<String>")
             dm == req(j, "declarations", "HashMap<String, DeclarationType>")
             ld == req(j, "library_dependencies", "Vec<LibraryDependency>")
         IN IF /\ ve.ok /\ na.ok /\ co.ok /\ en.ok /\ it.ok /\ st.ok
               /\ ta.ok /\ un.ok /\ xu.ok /\ od.ok /\ dm.ok /\ ld.ok
            THEN Ok([version |-> ve.v, name |-> na.v,
                     const_declarations |-> co.v, enum_declarations |-> en.v,
                     interface_declarations |-> it.v,
                     struct_declarations |-> st.v, table_declarations |-> ta.v,
                     union_declarations |-> un.v, xunion_declarations |-> xu.v,
                     declaration_order |-> od.v, declarations |-> dm.v,
                     library_dependencies |-> ld.v])
            ELSE Err

\* The Deserialize impl of each type that a field is declared with.
de(T, j) ==
    CASE T = "String" -> de_String(j)
      [] T = "bool" -> de_bool(j)
      [] T = "u32" -> de_u32(j)
      [] T = "Ordinal" -> de_Ordinal(j)
      [] T = "HandleSubtype" -> de_HandleSubtype(j)
      [] T = "DeclarationType" -> de_DeclarationType(j)
      [] T = "Type" -> de_Type(j)
      [] T = "Literal" -> de_Literal(j)
      [] T = "Constant" -> de_Constant(j)
      [] T = "Attribute" -> de_Attribute(j)
      [] T = "Const" -> de_Const(j)
      [] T = "EnumMember" -> de_EnumMember(j)
      [] T = "Enum" -> de_Enum(j)
      [] T = "ProtocolMethod" -> de_ProtocolMethod(j)
      [] T = "Protocol" -> de_Protocol(j)
      [] T = "StructMember" -> de_StructMember(j)
      [] T = "Struct" -> de_Struct(j)
      [] T = "TableMember" -> de_TableMember(j)
      [] T = "Table" -> de_Table(j)
      [] T = "UnionMember" -> de_UnionMember(j)
      [] T = "Union" -> de_Union(j)
      [] T = "Declaration" -> de_Declaration(j)
      [] T = "LibraryDependency" -> de_LibraryDependency(j)
      [] T = "Library" -> de_Library(j)
      [] T = "Vec<String>" -> de_Vec("String", j)
      [] T = "Vec<Attribute>" -> de_Vec("Attribute", j)
      [] T = "Vec<Const>" -> de_Vec("Const", j)
      [] T = "Vec<EnumMember>" -> de_Vec("EnumMember", j)
      [] T = "Vec<Enum>" -> de_Vec("Enum", j)
      [] T = "Vec<ProtocolMethod>" -> de_Vec("ProtocolMethod", j)
      [] T = "Vec<Protocol>" -> de_Vec("Protocol", j)
      [] T = "Vec<StructMember>" -> de_Vec("StructMember", j)
      [] T = "Vec<Struct>" -> de_Vec("Struct", j)
      [] T = "Vec<TableMember>" -> de_Vec("TableMember", j)
      [] T = "Vec<Table>" -> de_Vec("Table", j)
      [] T = "Vec<UnionMember>" -> de_Vec("UnionMember", j)
      [] T = "Vec<Union>" -> de_Vec("Union", j)
      [] T = "Vec<Declaration>" -> de_Vec("Declaration", j)
      [] T = "Vec<LibraryDependency>" -> de_Vec("LibraryDependency", j)
      [] T = "HashMap<String, DeclarationType>" -> de_HashMap("DeclarationType", j)

(***************************************************************************)
(* Files.  An argument names a file that does not exist, a file whose      *)
(* bytes are no JSON text, or a file holding the JSON value doc.           *)
(***************************************************************************)
NoFile == [file |-> "absent"]
NotJson == [file |-> "bytes"]
JsonFile(doc) == [file |-> "json", doc |-> doc]

\* File::open(filepath): Err when there is no such file.
File_open(f) == IF f.file = "absent" THEN Err ELSE Ok(f)

\* serde_json::from_reader::<_, Library>: the text must be JSON and a Library.
from_reader(f) == IF f.file = "json" THEN de("Library", f.doc) ELSE Err

\* pub fn read_ir(filepath: &str) -> Library: both failures are .expect()ed,
\* so the function returns a Library or panics with the expect's message.
read_ir(f) ==
    LET o == File_open(f) IN
    IF ~o.ok THEN [panic |-> "file not found"]
    ELSE LET r == from_reader(o.v) IN
         IF ~r.ok THEN [panic |-> "json error"]
         ELSE [library |-> r.v]

returned(r) == "library" \in DOMAIN r

\* println!("{:#?}", lib): the pretty Debug rendering of the whole value, one
\* write to standard output.
fmt_Debug(l) == [struct |-> "Library", fields |-> l]

(***************************************************************************)
(* The documents the arguments are drawn from.                             *)
(***************************************************************************)
MaxArgs == 3
MaxDepth == 2
MaxMembers == 2
MaxOrdinal == 2
MaxMethods == 2

\* Positions inside a document: object keys and array indices, as strings.
index == [a \in {"1", "2", "3", "4", "5", "6"} |->
             CASE a = "1" -> 1 [] a = "2" -> 2 [] a = "3" -> 3
               [] a = "4" -> 4 [] a = "5" -> 5 [] a = "6" -> 6]

RECURSIVE Get(_, _)
Get(j, path) ==
    IF path = <<>> THEN j
    ELSE IF j.t = "obj" THEN Get(j.f[Head(path)], Tail(path))
    ELSE Get(j.a[index[Head(path)]], Tail(path))

RECURSIVE Replace(_, _, _)
Replace(j, path, v) ==
    IF path = <<>> THEN v
    ELSE IF j.t = "obj"
         THEN Put(j, Head(path), Replace(j.f[Head(path)], Tail(path), v))
         ELSE Arr([n \in 1..Len(j.a) |->
                      IF n = index[Head(path)]
                      THEN Replace(j.a[n], Tail(path), v)
                      ELSE j.a[n]])

\* The document without the field k of the object at path.
Remove(j, path, k) == Replace(j, path, Without(Get(j, path), k))

T_primitive == Obj([kind |-> Str("primitive"), subtype |-> Str("uint8")])
T_string ==
    Obj([kind |-> Str("string"), nullable |-> Bool(FALSE),
         maybe_element_count |-> Num(4)])
T_handle ==
    Obj([kind |-> Str("handle"), subtype |-> Str("vmo"), nullable |-> Bool(TRUE)])
T_request ==
    Obj([kind |-> Str("request"), subtype |-> Str("fidl.test/P"),
         nullable |-> Bool(FALSE)])
T_identifier(name) ==
    Obj([kind |-> Str("identifier"), identifier |-> Str(name),
         nullable |-> Bool(FALSE)])
T_array(et) ==
    Obj([kind |-> Str("array"), element_type |-> et, element_count |-> Num(2)])
T_vector(et) ==
    Obj([kind |-> Str("vector"), element_type |-> et, nullable |-> Bool(FALSE),
         maybe_element_count |-> Num(3)])

L_numeric == Obj([kind |-> Str("numeric"), value |-> Str("1")])
C_literal(l) == Obj([kind |-> Str("literal"), literal |-> l])
C_identifier == Obj([kind |-> Str("identifier"), identifier |-> Str("fidl.test/C")])

J_attributes ==
    Arr(<<Obj([name |-> Str("Doc"), value |-> Str("text")])>>)

J_struct_member(name, ty) ==
    Obj([name |-> Str(name), maybe_attributes |-> J_attributes, type |-> ty,
         size |-> Num(8), max_out_of_line |-> Num(0), alignment |-> Num(8),
         offset |-> Num(0), maybe_default_value |-> C_literal(L_numeric)])

J_table_member(name, ordinal) ==
    Obj([reserved |-> Bool(FALSE), ordinal |-> Num(ordinal), name |-> Str(name),
         type |-> T_primitive, size |-> Num(1), max_out_of_line |-> Num(0),
         alignment |-> Num(1), offset |-> Num(0),
         maybe_default_value |-> C_literal(L_numeric)])

J_reserved_member(ordinal) ==
    Obj([reserved |-> Bool(TRUE), ordinal |-> Num(ordinal)])

J_method(name, has_request, has_response) ==
    Obj([name |-> Str(name), maybe_attributes |-> J_attributes,
         ordinal |-> Num(1), generated_ordinal |-> Num(2),
         has_request |-> Bool(has_request),
         maybe_request |-> Arr(<<J_struct_member("arg", T_string)>>),
         maybe_request_size |-> Num(24), maybe_request_alignment |-> Num(8),
         has_response |-> Bool(has_response),
         maybe_response |-> Arr(<<J_struct_member("ret", T_handle)>>),
         maybe_response_size |-> Num(24), maybe_response_alignment |-> Num(8)])

J_table(members) ==
    Obj([name |-> Str("fidl.test/T"), maybe_attributes |-> J_attributes,
         members |-> Arr(members), size |-> Num(16), max_out_of_line |-> Num(8)])

J_protocol(methods) ==
    Obj([name |-> Str("fidl.test/P"), maybe_attributes |-> J_attributes,
         methods |-> Arr(methods)])

\* A complete, consistent library as the producer writes it: one declaration
\* of every kind, every optional field present.  An xunion's members are in
\* the producer's output though struct Declaration does not declare them.
FullLib ==
    Obj([version |-> Str("0.0.1"),
         name |-> Str("fidl.test"),
         const_declarations |-> Arr(<<
             Obj([name |-> Str("fidl.test/C"), type |-> T_primitive,
                  value |-> C_literal(L_numeric),
                  maybe_attributes |-> J_attributes])>>),
         enum_declarations |-> Arr(<<
             Obj([name |-> Str("fidl.test/E"), type |-> Str("uint32"),
                  members |-> Arr(<<
                      Obj([name |-> Str("A"), value |-> C_identifier,
                           maybe_attributes |-> J_attributes])>>),
                  maybe_attributes |-> J_attributes])>>),
         interface_declarations |-> Arr(<<
             J_protocol(<<J_method("M", TRUE, TRUE)>>)>>),
         struct_declarations |-> Arr(<<
             Obj([name |-> Str("fidl.test/S"), maybe_attributes |-> J_attributes,
                  members |-> Arr(<<
                      J_struct_member("a", T_vector(T_array(T_primitive))),
                      J_struct_member("b", T_request),
                      J_struct_member("c", T_identifier("fidl.test/T"))>>),
                  size |-> Num(24), max_out_of_line |-> Num(16),
                  max_handles |-> Num(1), anonymous |-> Bool(FALSE)])>>),
         table_declarations |-> Arr(<<
             J_table(<<J_table_member("a", 1), J_reserved_member(2)>>)>>),
         union_declarations |-> Arr(<<
             Obj([name |-> Str("fidl.test/U"), maybe_attributes |-> J_attributes,
                  members |-> Arr(<<
                      Obj([name |-> Str("u"), maybe_attributes |-> J_attributes,
                           type |-> T_string, size |-> Num(16),
                           max_out_of_line |-> Num(4), alignment |-> Num(8),
                           offset |-> Num(8)])>>),
                  size |-> Num(24), alignment |-> Num(8),
                  max_out_of_line |-> Num(4), max_handles |-> Num(0)])>>),
         xunion_declarations |-> Arr(<<
             Obj([name |-> Str("fidl.test/X"), maybe_attributes |-> J_attributes,
                  members |-> Arr(<<
                      Obj([name |-> Str("x"), type |-> T_primitive])>>)])>>),
         declaration_order |-> Arr(<<
             Str("fidl.test/C"), Str("fidl.test/E"), Str("fidl.test/T"),
             Str("fidl.test/S"), Str("fidl.test/U"), Str("fidl.test/X"),
             Str("fidl.test/P")>>),
         declarations |-> Obj([a \in {"fidl.test/C", "fidl.test/E", "fidl.test/P",
                                      "fidl.test/S", "fidl.test/T", "fidl.test/U",
                                      "fidl.test/X"} |->
             CASE a = "fidl.test/C" -> Str("const")
               [] a = "fidl.test/E" -> Str("enum")
               [] a = "fidl.test/P" -> Str("interface")
               [] a = "fidl.test/S" -> Str("struct")
               [] a = "fidl.test/T" -> Str("table")
               [] a = "fidl.test/U" -> Str("union")
               [] a = "fidl.test/X" -> Str("xunion")]),
         library_dependencies |-> Arr(<<
             Obj([name |-> Str("other.dep"),
                  declarations |-> Obj([a \in {"other.dep/D"} |-> Str("struct")])])>>)])

\* The same library written with no optional field at all.
LeanLib ==
    Obj([version |-> Str("0.0.1"),
         name |-> Str("fidl.lean"),
         const_declarations |-> Arr(<<
             Obj([name |-> Str("fidl.lean/C"),
                  type |-> Obj([kind |-> Str("string"), nullable |-> Bool(TRUE)]),
                  value |-> C_literal(Obj([kind |-> Str("default")]))])>>),
         enum_declarations |-> Arr(<<
             Obj([name |-> Str("fidl.lean/E"), type |-> Str("uint32"),
                  members |-> Arr(<<
                      Obj([name |-> Str("A"), value |-> C_literal(L_numeric)])>>)])>>),
         interface_declarations |-> Arr(<<
             Obj([name |-> Str("fidl.lean/P"),
                  methods |-> Arr(<<
                      Obj([name |-> Str("M"), ordinal |-> Num(1),
                           generated_ordinal |-> Num(2),
                           has_request |-> Bool(TRUE),
                           has_response |-> Bool(FALSE)])>>)])>>),
         struct_declarations |-> Arr(<<
             Obj([name |-> Str("fidl.lean/S"),
                  members |-> Arr(<<
                      Obj([name |-> Str("a"),
                           type |-> Obj([kind |-> Str("vector"),
                                         element_type |-> T_primitive,
                                         nullable |-> Bool(FALSE)]),
                           size |-> Num(16), max_out_of_line |-> Num(8),
                           alignment |-> Num(8), offset |-> Num(0)])>>),
                  size |-> Num(16), max_out_of_line |-> Num(8)])>>),
         table_declarations |-> Arr(<<
             Obj([name |-> Str("fidl.lean/T"),
                  members |-> Arr(<<J_reserved_member(1)>>),
                  size |-> Num(16), max_out_of_line |-> Num(0)])>>),
         union_declarations |-> Arr(<<
             Obj([name |-> Str("fidl.lean/U"),
                  members |-> Arr(<<
                      Obj([name |-> Str("u"), type |-> T_primitive,
                           size |-> Num(1), max_out_of_line |-> Num(0),
                           alignment |-> Num(1), offset |-> Num(4)])>>),
                  size |-> Num(8), alignment |-> Num(4),
                  max_out_of_line |-> Num(0)])>>),
         xunion_declarations |-> Arr(<<Obj([name |-> Str("fidl.lean/X")])>>),
         declaration_order |-> Arr(<<
             Str("fidl.lean/C"), Str("fidl.lean/E"), Str("fidl.lean/T"),
             Str("fidl.lean/S"), Str("fidl.lean/U"), Str("fidl.lean/X"),
             Str("fidl.lean/P")>>),
         declarations |-> Obj([a \in {"fidl.lean/C", "fidl.lean/E", "fidl.lean/P",
                                      "fidl.lean/S", "fidl.lean/T", "fidl.lean/U",
                                      "fidl.lean/X"} |->
             CASE a = "fidl.lean/C" -> Str("const")
               [] a = "fidl.lean/E" -> Str("enum")
               [] a = "fidl.lean/P" -> Str("interface")
               [] a = "fidl.lean/S" -> Str("struct")
               [] a = "fidl.lean/T" -> Str("table")
               [] a = "fidl.lean/U" -> Str("union")
               [] a = "fidl.lean/X" -> Str("xunion")]),
         library_dependencies |-> Arr(<<>>)])

SeqsUpTo(S, n) == UNION {[1..m -> S] : m \in 0..n}

\* Where both libraries hold the value that a family of documents varies.
TypeSlot == <<"struct_declarations", "1", "members", "1", "type">>
ConstantSlot == <<"const_declarations", "1", "value">>
MembersSlot == <<"table_declarations", "1", "members">>
MethodsSlot == <<"interface_declarations", "1", "methods">>

\* Well-formed types, nested at most d deep.
RECURSIVE TypeDocs(_)
TypeDocs(d) ==
    LET leaves == {T_primitive, T_string, T_handle, T_request,
                   T_identifier("fidl.test/T"), T_identifier("other.lib/Foo")}
    IN IF d = 0 THEN leaves
       ELSE leaves \cup {T_array(e) : e \in TypeDocs(d - 1)}
                   \cup {T_vector(e) : e \in TypeDocs(d - 1)}

\* Well-formed constants.
ConstantDocs ==
    {C_identifier}
    \cup {C_literal(Obj([kind |-> Str(k), value |-> Str("1")])) :
             k \in {"string", "numeric"}}
    \cup {C_literal(Obj([kind |-> Str(k)])) : k \in {"true", "false", "default"}}

\* Table member lists: named and reserved members with any ordinals.
MemberDocs ==
    SeqsUpTo({J_table_member("a", k) : k \in 0..MaxOrdinal}
             \cup {J_reserved_member(k) : k \in 0..MaxOrdinal}, MaxMembers)

\* Method lists with every combination of has_request and has_response.
MethodDocs ==
    SeqsUpTo({J_method("M", q, r) : q \in BOOLEAN, r \in BOOLEAN}, MaxMethods)

\* declaration_order lists: the producer's, and ones with an entry left out,
\* repeated, or naming nothing that is declared.
OrderDocs ==
    LET order == FullLib.f.declaration_order.a
        n == Len(order)
    IN {order, Append(order, Str("fidl.test/Ghost"))}
       \cup {SubSeq(order, 1, k - 1) \o SubSeq(order, k + 1, n) : k \in 1..n}
       \cup {Append(order, order[k]) : k \in 1..n}
       \cup {[order EXCEPT ![k] = Str("fidl.test/Ghost")] : k \in 1..n}

\* declarations maps: the producer's, and ones with an entry left out, with
\* another kind, or for a name with no declaration in the kind arrays.
DeclarationsDocs ==
    LET decls == FullLib.f.declarations
        kinds == {lowercase[v] : v \in DeclarationType}
    IN {decls}
       \cup {Without(decls, a) : a \in DOMAIN decls.f}
       \cup {Put(decls, a, Str(k)) : a \in DOMAIN decls.f, k \in kinds}
       \cup {Put(decls, a, Str(k)) :
                a \in {"fidl.test/B", "fidl.test/Ghost"}, k \in kinds}

ValidDocs ==
    {FullLib, LeanLib}
    \cup {Replace(LeanLib, TypeSlot, ty) : ty \in TypeDocs(MaxDepth)}
    \cup {Replace(LeanLib, ConstantSlot, c) : c \in ConstantDocs}
    \cup {Replace(LeanLib, MembersSlot, Arr(m)) : m \in MemberDocs}
    \cup {Replace(LeanLib, MethodsSlot, Arr(m)) : m \in MethodDocs}
    \cup {Replace(FullLib, <<"declaration_order">>, Arr(o)) : o \in OrderDocs}
    \cup {Replace(FullLib, <<"declarations">>, d) : d \in DeclarationsDocs}

(***************************************************************************)
(* The fields of every struct and of every variant, as declared: those of  *)
(* a type other than Option<_> are required, those of type Option<_> are   *)
(* optional.  at is where FullLib holds an object of that struct.          *)
(***************************************************************************)
StructMemberFields ==
    [required |-> {"name", "type", "size", "max_out_of_line", "alignment", "offset"},
     optional |-> {"maybe_attributes", "maybe_default_value"}]

Shape(at, fields) ==
    [at |-> at, required |-> fields.required, optional |-> fields.optional]

StructShapes ==
    {Shape(<<>>,
        [required |-> {"version", "name", "const_declarations",
                       "enum_declarations", "interface_declarations",
                       "struct_declarations", "table_declarations",
                       "union_declarations", "xunion_declarations",
                       "declaration_order", "declarations",
                       "library_dependencies"},
         optional |-> {}]),
     Shape(<<"const_declarations", "1">>,
        [required |-> {"name", "type", "value"},
         optional |-> {"maybe_attributes"}]),
     Shape(<<"const_declarations", "1", "maybe_attributes", "1">>,
        [required |-> {"name", "value"}, optional |-> {}]),
     Shape(<<"enum_declarations", "1">>,
        [required |-> {"name", "type", "members"},
         optional |-> {"maybe_attributes"}]),
     Shape(<<"enum_declarations", "1", "members", "1">>,
        [required |-> {"name", "value"}, optional |-> {"maybe_attributes"}]),
     Shape(<<"interface_declarations", "1">>,
        [required |-> {"name", "methods"}, optional |-> {"maybe_attributes"}]),
     Shape(<<"interface_declarations", "1", "methods", "1">>,
        [required |-> {"name", "ordinal", "generated_ordinal", "has_request",
                       "has_response"},
         optional |-> {"maybe_attributes", "maybe_request",
                       "maybe_request_size", "maybe_request_alignment",
                       "maybe_response", "maybe_response_size",
                       "maybe_response_alignment"}]),
     Shape(<<"interface_declarations", "1", "methods", "1", "maybe_request", "1">>,
        StructMemberFields),
     Shape(<<"interface_declarations", "1", "methods", "1", "maybe_response", "1">>,
        StructMemberFields),
     Shape(<<"struct_declarations", "1">>,
        [required |-> {"name", "members", "size", "max_out_of_line"},
         optional |-> {"maybe_attributes", "max_handles", "anonymous"}]),
     Shape(<<"struct_declarations", "1", "members", "1">>, StructMemberFields),
     Shape(<<"struct_declarations", "1", "members", "2">>, StructMemberFields),
     Shape(<<"struct_declarations", "1", "members", "3">>, StructMemberFields),
     Shape(<<"table_declarations", "1">>,
        [required |-> {"name", "members", "size", "max_out_of_line"},
         optional |-> {"maybe_attributes"}]),
     Shape(<<"table_declarations", "1", "members", "1">>,
        [required |-> {"reserved", "ordinal"},
         optional |-> {"name", "type", "size", "max_out_of_line", "alignment",
                       "offset", "maybe_default_value"}]),
     Shape(<<"table_declarations", "1", "members", "2">>,
        [required |-> {"reserved", "ordinal"}, optional |-> {}]),
     Shape(<<"union_declarations", "1">>,
        [required |-> {"name", "members", "size", "alignment", "max_out_of_line"},
         optional |-> {"maybe_attributes", "max_handles"}]),
     Shape(<<"union_declarations", "1", "members", "1">>,
        [required |-> {"name", "type", "size", "max_out_of_line", "alignment",
                       "offset"},
         optional |-> {"maybe_attributes"}]),
     Shape(<<"xunion_declarations", "1">>,
        [required |-> {"name"}, optional |-> {"maybe_attributes"}]),
     Shape(<<"library_dependencies", "1">>,
        [required |-> {"name", "declarations"}, optional |-> {}])}

\* The fields of the variant of enum e whose tag is kind; the tag itself is
\* required of every variant.
VariantFields(e, kind) ==
    CASE e = "Type" /\ kind = "array" ->
            [required |-> {"kind", "element_type", "element_count"}, optional |-> {}]
      [] e = "Type" /\ kind = "vector" ->
            [required |-> {"kind", "element_type", "nullable"},
             optional |-> {"maybe_element_count"}]
      [] e = "Type" /\ kind = "string" ->
            [required |-> {"kind", "nullable"}, optional |-> {"maybe_element_count"}]
      [] e = "Type" /\ kind \in {"handle", "request"} ->
            [required |-> {"kind", "subtype", "nullable"}, optional |-> {}]
      [] e = "Type" /\ kind = "primitive" ->
            [required |-> {"kind", "subtype"}, optional |-> {}]
      [] e = "Type" /\ kind = "identifier" ->
            [required |-> {"kind", "identifier", "nullable"}, optional |-> {}]
      [] e = "Literal" /\ kind \in {"string", "numeric"} ->
            [required |-> {"kind", "value"}, optional |-> {}]
      [] e = "Literal" /\ kind \in {"true", "false", "default"} ->
            [required |-> {"kind"}, optional |-> {}]
      [] e = "Constant" /\ kind = "identifier" ->
            [required |-> {"kind", "identifier"}, optional |-> {}]
      [] e = "Constant" /\ kind = "literal" ->
            [required |-> {"kind", "literal"}, optional |-> {}]

Variants(e) ==
    CASE e = "Type" -> TypeVariants
      [] e = "Literal" -> LiteralVariants
      [] e = "Constant" -> ConstantVariants
      [] e = "HandleSubtype" -> HandleSubtype
      [] e = "DeclarationType" -> DeclarationType

\* Where FullLib holds a value of one of the tagged enums.
TaggedNodes ==
    LET members == {<<"struct_declarations", "1", "members", n>> : n \in {"1", "2", "3"}}
                   \cup {<<"interface_declarations", "1", "methods", "1", m, "1">> :
                            m \in {"maybe_request", "maybe_response"}}
        types == {m \o <<"type">> : m \in members}
                 \cup {<<"const_declarations", "1", "type">>,
                       <<"table_declarations", "1", "members", "1", "type">>,
                       <<"union_declarations", "1", "members", "1", "type">>,
                       TypeSlot \o <<"element_type">>,
                       TypeSlot \o <<"element_type", "element_type">>}
        literals == {m \o <<"maybe_default_value">> : m \in members}
                    \cup {ConstantSlot,
                          <<"table_declarations", "1", "members", "1",
                            "maybe_default_value">>}
        constants == literals \cup {<<"enum_declarations", "1", "members", "1", "value">>}
    IN {[at |-> p, enum |-> "Type"] : p \in types}
       \cup {[at |-> p, enum |-> "Constant"] : p \in constants}
       \cup {[at |-> p \o <<"literal">>, enum |-> "Literal"] : p \in literals}

\* Where FullLib holds the string naming a variant: the "kind" of every tagged
\* value, the subtype of a handle, and the kinds in the two declarations maps.
TagStrings ==
    {[at |-> n.at \o <<"kind">>, enum |-> n.enum] : n \in TaggedNodes}
    \cup {[at |-> <<"interface_declarations", "1", "methods", "1",
                    "maybe_response", "1", "type", "subtype">>,
           enum |-> "HandleSubtype"],
          [at |-> <<"library_dependencies", "1", "declarations", "other.dep/D">>,
           enum |-> "DeclarationType"]}
    \cup {[at |-> <<"declarations", a>>, enum |-> "DeclarationType"] :
             a \in DOMAIN FullLib.f.declarations.f}

\* The nodes of a type: itself, its element type, that one's element type, ...
RECURSIVE TypeNodes(_)
TypeNodes(ty) ==
    IF "element_type" \in DOMAIN ty.f
    THEN {<<>>} \cup {<<"element_type">> \o q : q \in TypeNodes(ty.f.element_type)}
    ELSE {<<>>}

\* Strings that name no variant of the set.
SomeTags ==
    {"bogus", "", "Array", "VMO", "XUnion", "debug_log", "event_pair",
     "protocol", "struct", "string", "literal", "handle", "true", "bits"}

FewTags == {"bogus", "Array", "VMO", "struct"}

Unknown(variants) == {x \in SomeTags : \A v \in variants : lowercase[v] # x}

\* Every node q of every type ty nested at most MaxDepth deep.
TypeDocNodes ==
    UNION {{[ty |-> ty, q |-> q] : q \in TypeNodes(ty)} : ty \in TypeDocs(MaxDepth)}

\* LeanLib with the type n.ty, whose node at n.q is replaced by node.
TypeSlotDoc(n, node) == Replace(LeanLib, TypeSlot, Replace(n.ty, n.q, node))

NodeFields(e, node) == VariantFields(e, node.f.kind.s)

\* Documents that lack exactly one required field of one struct or variant.
MissingRequiredDocs ==
    UNION {{Remove(FullLib, x.at, k) : k \in x.required} : x \in StructShapes}
    \cup UNION {{Remove(FullLib, n.at, k) :
                    k \in NodeFields(n.enum, Get(FullLib, n.at)).required} :
                   n \in TaggedNodes}
    \cup UNION {{TypeSlotDoc(n, Without(Get(n.ty, n.q), k)) :
                    k \in NodeFields("Type", Get(n.ty, n.q)).required} :
                   n \in TypeDocNodes}
    \cup UNION {{Replace(LeanLib, ConstantSlot, Without(c, k)) :
                    k \in NodeFields("Constant", c).required} : c \in ConstantDocs}
    \cup UNION {{Replace(LeanLib, ConstantSlot, C_literal(Without(c.f.literal, k))) :
                    k \in NodeFields("Literal", c.f.literal).required} :
                   c \in ConstantDocs \ {C_identifier}}

\* Documents that lack one optional field, and one that has none at all.
AbsentOptionalDocs ==
    {LeanLib}
    \cup UNION {{Remove(FullLib, x.at, k) : k \in x.optional} : x \in StructShapes}
    \cup UNION {{Remove(FullLib, n.at, k) :
                    k \in NodeFields(n.enum, Get(FullLib, n.at)).optional} :
                   n \in TaggedNodes}
    \cup UNION {{TypeSlotDoc(n, Without(Get(n.ty, n.q), k)) :
                    k \in NodeFields("Type", Get(n.ty, n.q)).optional} :
                   n \in TypeDocNodes}

\* Documents with null where FullLib has a field: null stands for an absent
\* Option<_> and is no value of any other field type.
NullRequiredDocs ==
    UNION {{Replace(FullLib, x.at \o <<k>>, Null) : k \in x.required} :
              x \in StructShapes}

NullOptionalDocs ==
    UNION {{Replace(FullLib, x.at \o <<k>>, Null) : k \in x.optional} :
              x \in StructShapes}

\* Documents with one variant name replaced by a string that names no variant
\* of its enum.
UnknownTagDocs ==
    UNION {{Replace(FullLib, x.at, Str(u)) : u \in Unknown(Variants(x.enum))} :
              x \in TagStrings}
    \cup UNION {{TypeSlotDoc(n, Put(Get(n.ty, n.q), "kind", Str(u))) :
                    u \in Unknown(TypeVariants) \cap FewTags} :
                   n \in TypeDocNodes}
    \cup UNION {{TypeSlotDoc(n, Put(Get(n.ty, n.q), "subtype", Str(u))) :
                    u \in Unknown(HandleSubtype) \cap FewTags} :
                   n \in {m \in TypeDocNodes : Get(m.ty, m.q).f.kind.s = "handle"}}
    \cup UNION {{Replace(LeanLib, ConstantSlot, C_literal(Put(c.f.literal, "kind", Str(u)))) :
                    u \in Unknown(LiteralVariants)} :
                   c \in ConstantDocs \ {C_identifier}}

\* Documents with content in fields no struct declares: the members of an
\* xunion, a bits_declarations array.  Their tags are never looked at.
UndeclaredDocs ==
    {Replace(FullLib, <<"xunion_declarations", "1", "members", "1", "type", "kind">>,
             Str(u)) : u \in Unknown(TypeVariants)}
    \cup {Put(FullLib, "bits_declarations", v) :
             v \in {Arr(<<>>), Null, Arr(<<Obj([name |-> Str("fidl.test/B")])>>)}}

\* Documents of another JSON shape than the field's type.
WrongShapeDocs ==
    {Null, Num(1), Str("fidl.test"), Bool(TRUE), Arr(<<>>)}
    \cup {Replace(FullLib, TypeSlot, v) : v \in {Str("uint8"), Num(0), Arr(<<>>)}}
    \cup {Replace(FullLib, x.at \o <<"kind">>, v) :
             x \in TaggedNodes, v \in {Null, Bool(TRUE)}}
    \cup {Replace(FullLib, p, v) :
             p \in {<<"struct_declarations", "1", "size">>,
                    <<"table_declarations", "1", "members", "1", "ordinal">>,
                    TypeSlot \o <<"maybe_element_count">>,
                    TypeSlot \o <<"element_type", "element_count">>},
             v \in {Num(-1), Str("8"), Bool(FALSE)}}
    \cup {Replace(FullLib, <<"struct_declarations">>, FullLib.f.struct_declarations.a[1]),
          Replace(FullLib, <<"declarations">>, Arr(<<>>)),
          Replace(FullLib, <<"declaration_order">>, Arr(<<Num(1)>>))}

Docs ==
    ValidDocs \cup MissingRequiredDocs \cup AbsentOptionalDocs
    \cup NullRequiredDocs \cup NullOptionalDocs \cup UnknownTagDocs
    \cup UndeclaredDocs \cup WrongShapeDocs

\* The files of the runs with several arguments.
FewFiles == {NoFile, NotJson, JsonFile(Num(1)), JsonFile(FullLib), JsonFile(LeanLib)}

(***************************************************************************)
(* fn main.                                                                *)
(***************************************************************************)
Init ==
    /\ args \in {<<JsonFile(d)>> : d \in Docs} \cup SeqsUpTo(FewFiles, MaxArgs)
    /\ i = 0
    /\ pc = "for"
    /\ lib = None
    /\ stdout = <<>>
    /\ panic = None

\* for f in env::args().skip(1): the iterator yields the next argument, or
\* the loop and with it the process ends.
for_next ==
    /\ pc = "for"
    /\ IF i < Len(args)
       THEN i' = i + 1 /\ pc' = "read_ir"
       ELSE i' = i /\ pc' = "exit"
    /\ UNCHANGED <<args, lib, stdout, panic>>

\* call_read_ir with the failure reported and the loop going on to the next
\* argument.
call_read_ir_continuing ==
    /\ pc = "read_ir"
    /\ LET r == read_ir(args[i]) IN
       IF returned(r)
       THEN lib' = Some(r.library) /\ pc' = "println" /\ panic' = panic
       ELSE lib' = lib /\ pc' = "for" /\ panic' = Some(r.panic)
    /\ UNCHANGED <<args, i, stdout>>

\* let lib = ir::read_ir(&f): a panic unwinds out of main and ends the process.
call_read_ir ==
    /\ pc = "read_ir"
    /\ LET r == read_ir(args[i]) IN
       IF returned(r)
       THEN lib' = Some(r.library) /\ pc' = "println" /\ panic' = panic
       ELSE lib' = lib /\ pc' = "panicked" /\ panic' = Some(r.panic)
    /\ UNCHANGED <<args, i, stdout>>

\* println!("{:#?}", lib); the end of the loop body drops lib.
println ==
    /\ pc = "println"
    /\ stdout' = Append(stdout, fmt_Debug(lib.v))
    /\ lib' = None
    /\ pc' = "for"
    /\ UNCHANGED <<args, i, panic>>

Next == for_next \/ call_read_ir \/ println

Spec == Init /\ [][Next]_vars

(***************************************************************************)
(* Properties.  read_ir has acted on the file args[i] in the states where   *)
(* pc is "println" (it returned lib) or "panicked" (it panicked).          *)
(***************************************************************************)
WasRead == pc \in {"println", "panicked"}
Returned == pc = "println"
Panicked == pc = "panicked"

\* The file just read holds a document of the set S.
ReadDocIn(S) == WasRead /\ args[i].file = "json" /\ args[i].doc \in S

Range(q) == {q[n] : n \in DOMAIN q}
Names(decls) == {decls[n].name : n \in DOMAIN decls}

\* The kind-specific lists of a Library, by the kind they hold.
ListOf(l, kind) ==
    CASE kind = "Const" -> l.const_declarations
      [] kind = "Enum" -> l.enum_declarations
      [] kind = "Interface" -> l.interface_declarations
      [] kind = "Struct" -> l.struct_declarations
      [] kind = "Table" -> l.table_declarations
      [] kind = "Union" -> l.union_declarations
      [] kind = "XUnion" -> l.xunion_declarations
      [] kind = "Bits" -> <<>>

\* How many declarations of the kind-specific lists have the name a.
Declared(l, a) ==
    Cardinality({<<kind, n>> \in DeclarationType \X (1..8) :
                    n \in DOMAIN ListOf(l, kind) /\ ListOf(l, kind)[n].name = a})

\* C1: read_ir returns a Library or a typed error to its caller on every
\* input; no input makes it panic.
C1_NeverPanics == ~Panicked

\* C2: in every decoded Library declaration_order is a permutation of the
\* locally declared names: no name omitted, none undeclared, none repeated.
C2_OrderIsPermutation ==
    Returned =>
        LET l == lib.v
            order == l.declaration_order
        IN /\ \A a \in Range(order) : Declared(l, a) >= 1
           /\ \A kind \in DeclarationType :
                 Names(ListOf(l, kind)) \subseteq Range(order)
           /\ Cardinality(Range(order)) = Len(order)

C4_NoEmptyMethod ==
    Returned =>
        \A p \in Range(lib.v.interface_declarations) :
            \A m \in Range(p.methods) : m.has_request \/ m.has_response

\* C5: in every decoded Library the member ordinals of a table with N members
\* are pairwise distinct, non-zero and exactly 1..N.
C5_DenseOrdinals ==
    Returned =>
        \A tb \in Range(lib.v.table_declarations) :
            /\ {m.ordinal : m \in Range(tb.members)} = 1..Len(tb.members)
            /\ \A x, y \in DOMAIN tb.members :
                  x # y => tb.members[x].ordinal # tb.members[y].ordinal

\* C6: in every decoded Library every name of declaration_order or of the
\* declarations map is in exactly one kind-specific list, and that list is the
\* one of the kind the map records.
C6_IndicesAgree ==
    Returned =>
        LET l == lib.v IN
        /\ \A a \in Range(l.declaration_order) : Declared(l, a) = 1
        /\ \A a \in DOMAIN l.declarations :
              /\ Declared(l, a) = 1
              /\ a \in Names(ListOf(l, l.declarations[a]))

\* C7: a document lacking a field that its struct or its selected variant
\* requires is rejected, and the absence of an optional field by itself never
\* makes the decode fail.
C7_RequiredAndOptionalFields ==
    /\ ReadDocIn(MissingRequiredDocs) => Panicked
    /\ ReadDocIn(AbsentOptionalDocs) => Returned

C7_Witness ==
    /\ Panicked
    /\ args[i] = JsonFile(Replace(LeanLib, TypeSlot,
                     Without(T_array(T_primitive), "element_count")))

\* Member lists whose ordinals are 1, 2, ... in the document's order.
NumberedMemberDocs ==
    {m \in MemberDocs : \A n \in DOMAIN m : m[n].f.ordinal.n = n}

\* C8: a table whose members are {reserved: true, ordinal: k} objects among
\* named members decodes; the decoded table has the members in the document's
\* order, a reserved one with no name, type or layout, a named one with the
\* name, type and layout values of the document.
C8_ReservedMembers ==
    ReadDocIn({Replace(LeanLib, MembersSlot, Arr(m)) : m \in NumberedMemberDocs}) =>
        /\ Returned
        /\ LET js == Get(args[i].doc, MembersSlot).a
               ms == lib.v.table_declarations[1].members
           IN /\ Len(ms) = Len(js)
              /\ \A n \in DOMAIN js :
                    /\ ms[n].ordinal = js[n].f.ordinal.n
                    /\ ms[n].reserved = js[n].f.reserved.b
                    /\ IF "name" \in DOMAIN js[n].f
                       THEN /\ ms[n].name = Some(js[n].f.name.s)
                            /\ ms[n].type =
                                  Some([kind |-> "Primitive", subtype |-> "uint8"])
                            /\ ms[n].size = Some(js[n].f.size.n)
                            /\ ms[n].alignment = Some(js[n].f.alignment.n)
                            /\ ms[n].offset = Some(js[n].f.offset.n)
                            /\ ms[n].max_out_of_line = Some(js[n].f.max_out_of_line.n)
                       ELSE /\ ms[n].name = None /\ ms[n].type = None
                            /\ ms[n].size = None /\ ms[n].alignment = None
                            /\ ms[n].offset = None
                            /\ ms[n].max_out_of_line = None
                            /\ ms[n].maybe_default_value = None

C8_Witness ==
    /\ Returned
    /\ args[i] = JsonFile(Replace(LeanLib, MembersSlot,
                     Arr(<<J_table_member("a", 1), J_reserved_member(2)>>)))
    /\ Len(lib.v.table_declarations[1].members) = 2

\* C9 (its decoding half; the source has no resolve): a document with an
\* Identifier type naming a declaration of a library that library_dependencies
\* does not list decodes, the identifier kept as written.
C9_UnlistedIdentifierDecodes ==
    ReadDocIn({Replace(LeanLib, TypeSlot, T_identifier("other.lib/Foo"))}) =>
        /\ Returned
        /\ lib.v.struct_declarations[1].members[1].type.identifier = "other.lib/Foo"
        /\ lib.v.library_dependencies = <<>>

\* The files that cannot be opened or decoded.
FailingFiles ==
    {NoFile, NotJson}
    \cup {JsonFile(d) : d \in MissingRequiredDocs \cup NullRequiredDocs
                              \cup UnknownTagDocs \cup WrongShapeDocs}

\* C10: main takes the files in argument order, one at a time: the k-th
\* output is written after the k-th file is decoded and after the outputs of
\* the files before it, nothing is written for a file that fails, and the
\* first failing file ends the run.
C10_InOrderUntilFirstFailure ==
    /\ Len(stdout) = IF pc \in {"for", "exit"} THEN i ELSE i - 1
    /\ \A k \in 1..Len(stdout) :
          /\ args[k] \notin FailingFiles
          /\ stdout[k].fields.name = args[k].doc.f.name.s
    /\ Panicked => args[i] \in FailingFiles /\ ~ENABLED Next
    /\ pc = "exit" => i = Len(args)

C10_Witness ==
    /\ Panicked /\ i = 2 /\ Len(args) = 3
    /\ args[1] = JsonFile(LeanLib) /\ args[3] = JsonFile(FullLib)
    /\ Len(stdout) = 1

====
